---- MODULE Spec2Model ----
(***************************************************************************)
(* Graph builder of kg.py: create_knowledge_graph and process_entries.     *)
(*                                                                         *)
(* A Python str is the sequence of its code points ('nan' is               *)
(* <<110, 97, 110>>), so that split(',') and strip() are computed          *)
(* character by character.  A float is an IEEE double, held as its 53-bit  *)
(* mantissa and its exponent.  The pyvis Network `net` of line 36 is the   *)
(* sink of the builder: net_nodes is the log of the add_node calls issued, *)
(* net_edges the log of the add_edge calls issued, in order; add_edge      *)
(* raises AssertionError when an endpoint was not declared with add_node.  *)
(***************************************************************************)
EXTENDS Integers, Sequences, FiniteSets, TLC

VARIABLES data, pc, row, key_idx, descriptor_frequency, max_frequency,
          added_nodes, core_cde_measure, entries_dict, net_nodes, net_edges,
          written, entries, item_nodes, split_values

vars == <<data, pc, row, key_idx, descriptor_frequency, max_frequency,
          added_nodes, core_cde_measure, entries_dict, net_nodes, net_edges,
          written, entries, item_nodes, split_values>>

(* ------------------------------ bounds --------------------------------- *)

\* largest number of rows of a dataset
MaxRows == 2

\* longest field handed to process_entries on its own
MaxLen == 4

(* ------------------------------ strings -------------------------------- *)

\* 'nan' and ''
s_nan == <<110, 97, 110>>
s_empty == <<>>

\* the list ['nan', ''] of lines 100, 109 and 182
Missing == {s_nan, s_empty}

\* ','
Comma == 44

\* the characters str.strip() removes: '\t' '\n' '\x0b' '\x0c' '\r',
\* '\x1c'-'\x1f', ' ', '\x85', '\xa0' and the Unicode spaces
Whitespace ==
  (9..13) \cup (28..32) \cup {133, 160, 5760} \cup (8192..8202)
    \cup {8232, 8233, 8239, 8287, 12288}

\* str.split(','): the segments between the commas, empty ones kept
RECURSIVE Split(_)
Split(s) ==
  IF \A p \in 1..Len(s) : s[p] # Comma
  THEN <<s>>
  ELSE LET p == CHOOSE q \in 1..Len(s) :
                  s[q] = Comma /\ \A o \in 1..(q - 1) : s[o] # Comma
       IN  <<SubSeq(s, 1, p - 1)>> \o Split(SubSeq(s, p + 1, Len(s)))

RECURSIVE LStrip(_)
LStrip(s) ==
  IF s # <<>> /\ Head(s) \in Whitespace THEN LStrip(Tail(s)) ELSE s

RECURSIVE RStrip(_)
RStrip(s) ==
  IF s # <<>> /\ s[Len(s)] \in Whitespace
  THEN RStrip(SubSeq(s, 1, Len(s) - 1))
  ELSE s

\* str.strip()
Strip(s) == RStrip(LStrip(s))

(* ------------------------------ styles --------------------------------- *)

MeasureColumn == "Core CDE Measures"

\* the header of the table, in color_map's order
Columns == <<"Core CDE Measures", "Domain", "Questionnaire", "Study Name",
             "PI Name", "HEAL Research Program">>

\* the keys of the loop of line 117, in its order
Keys == <<"Domain", "Questionnaire", "HEAL Research Program", "Study Name",
          "PI Name">>

color_map ==
  ("Core CDE Measures" :> "#4b0082") @@ ("Domain" :> "#dda0dd") @@
  ("Questionnaire" :> "#ff1493") @@ ("Study Name" :> "#1f77b4") @@
  ("PI Name" :> "#2ca02c") @@ ("HEAL Research Program" :> "#ffb6c1")

shape_map ==
  ("Core CDE Measures" :> "dot") @@ ("Domain" :> "ellipse") @@
  ("Questionnaire" :> "square") @@ ("HEAL Research Program" :> "triangle") @@
  ("Study Name" :> "text") @@ ("PI Name" :> "text")

(* ------------------------------ floats --------------------------------- *)
(* A positive double is [mant |-> <<1, l1, l2, l3, l4>>, exp |-> e]: its   *)
(* value is (2^52 + l1 * 2^39 + l2 * 2^26 + l3 * 2^13 + l4) * 2^e, with    *)
(* every l below 2^13.  Each operation rounds to nearest, ties to even.    *)

Limb == 2^13

Pow2(n) == 2^n

\* the number of times a is doubled to reach m
RECURSIVE Doublings(_, _)
Doublings(a, m) == IF a >= m THEN 0 ELSE 1 + Doublings(2 * a, m)

\* the number of bits of t after the first
RECURSIVE Log2(_)
Log2(t) == IF t < 2 THEN 0 ELSE 1 + Log2(t \div 2)

\* mant + 1, renormalised when it reaches 2^53
RoundUp(mant, e) ==
  LET l4 == mant[5] + 1
      l3 == mant[4] + l4 \div Limb
      l2 == mant[3] + l3 \div Limb
      l1 == mant[2] + l2 \div Limb
      l0 == mant[1] + l1 \div Limb
  IN  IF l0 = 2
      THEN [mant |-> <<1, 0, 0, 0, 0>>, exp |-> e + 1]
      ELSE [mant |-> <<l0, l1 % Limb, l2 % Limb, l3 % Limb, l4 % Limb>>,
            exp  |-> e]

\* f / m of two ints with 1 <= f <= m < 2^18: the double nearest to the
\* quotient
FloatDiv(f, m) ==
  LET t  == Doublings(f, m)
      r0 == f * Pow2(t) - m
      d1 == (r0 * Limb) \div m
      r1 == (r0 * Limb) % m
      d2 == (r1 * Limb) \div m
      r2 == (r1 * Limb) % m
      d3 == (r2 * Limb) \div m
      r3 == (r2 * Limb) % m
      d4 == (r3 * Limb) \div m
      r4 == (r3 * Limb) % m
      e  == 0 - (52 + t)
  IN  IF 2 * r4 > m \/ (2 * r4 = m /\ d4 % 2 = 1)
      THEN RoundUp(<<1, d1, d2, d3, d4>>, e)
      ELSE [mant |-> <<1, d1, d2, d3, d4>>, exp |-> e]

\* k * x of an int 1 <= k < 2^13 and a double x: the double nearest to the
\* product
FloatMul(k, x) ==
  LET p4 == k * x.mant[5]
      p3 == k * x.mant[4] + p4 \div Limb
      p2 == k * x.mant[3] + p3 \div Limb
      p1 == k * x.mant[2] + p2 \div Limb
      top == k * x.mant[1] + p1 \div Limb
      sh == Log2(top)
      lo == Pow2(sh)
      hi == Pow2(13 - sh)
      q1 == (top % lo) * hi + (p1 % Limb) \div lo
      q2 == ((p1 % Limb) % lo) * hi + (p2 % Limb) \div lo
      q3 == ((p2 % Limb) % lo) * hi + (p3 % Limb) \div lo
      q4 == ((p3 % Limb) % lo) * hi + (p4 % Limb) \div lo
      dropped == (p4 % Limb) % lo
      e == x.exp + sh
  IN  IF sh >= 1 /\ (2 * dropped > lo \/ (2 * dropped = lo /\ q4 % 2 = 1))
      THEN RoundUp(<<1, q1, q2, q3, q4>>, e)
      ELSE [mant |-> <<1, q1, q2, q3, q4>>, exp |-> e]

\* the double equal to the int 1 <= k < 2^13
FloatOfInt(k) == FloatMul(k, [mant |-> <<1, 0, 0, 0, 0>>, exp |-> 0 - 52])

(* ------------------------------ sizes ---------------------------------- *)

\* size=30 * (descriptor_frequency[core_cde_measure] / max_frequency)
MeasureSize(freq, maxfreq) == FloatMul(30, FloatDiv(freq, maxfreq))

\* a variant of EntrySize: the entry nodes get the base scale of the measures
EntrySizeBase == FloatOfInt(30)

\* size=15 of line 188; 15 == 15.0
EntrySize == FloatOfInt(15)

(* ------------------------------ inputs --------------------------------- *)

\* 'a', 'b'
s_a == <<97>>
s_b == <<98>>

MeasureFields == {s_nan, s_empty, s_a, s_b}

\* 'nan', 'c, d\r' and 'a,,nan'
DomainFields == { s_nan,
                  <<99, 44, 32, 100, 13>>,
                  <<97, 44, 44, 110, 97, 110>> }

\* Questionnaire, HEAL Research Program, Study Name, PI Name of one row:
\* 'nan', 'nan', '', 'nan' or 'a', 'a', 'a', 'b'
OtherFields == { <<s_nan, s_nan, s_empty, s_nan>>,
                 <<s_a, s_a, s_a, s_b>> }

Row(m, d, t) ==
  ("Core CDE Measures" :> m) @@ ("Domain" :> d) @@ ("Questionnaire" :> t[1]) @@
  ("HEAL Research Program" :> t[2]) @@ ("Study Name" :> t[3]) @@
  ("PI Name" :> t[4])

Rows == { Row(m, d, t) : m \in MeasureFields, d \in DomainFields,
                         t \in OtherFields }

Datasets == UNION { [1..n -> Rows] : n \in 0..MaxRows }

\* 'a', 'n', ',', ' ' and the no-break space
Alphabet == {97, 110, 44, 32, 160}

Fields == UNION { [1..n -> Alphabet] : n \in 0..MaxLen }

(* --------------------------- create_knowledge_graph -------------------- *)

RECURSIVE Flatten(_)
Flatten(ss) == IF ss = <<>> THEN <<>> ELSE Head(ss) \o Flatten(Tail(ss))

\* a variant of all_descriptors: only the Core CDE Measures column is counted
all_descriptors_measures(d) ==
  SelectSeq([r \in 1..Len(d) |-> d[r][MeasureColumn]],
            LAMBDA x : x \notin Missing)

\* [descriptor for entry in data for descriptor in entry
\*             if descriptor not in ['nan', '']]
all_descriptors(d) ==
  LET cells == Flatten([r \in 1..Len(d) |->
                          [c \in 1..Len(Columns) |-> d[r][Columns[c]]]])
  IN  SelectSeq(cells, LAMBDA x : x \notin Missing)

\* Counter(all_descriptors): one increment per element
RECURSIVE Counter(_)
Counter(seq) ==
  IF seq = <<>> THEN <<>>
  ELSE LET rest == Counter(SubSeq(seq, 1, Len(seq) - 1))
           x    == seq[Len(seq)]
       IN  IF x \in DOMAIN rest
           THEN [rest EXCEPT ![x] = @ + 1]
           ELSE rest @@ (x :> 1)

\* max(descriptor_frequency.values()) of a non-empty Counter
MaxValue(f) == CHOOSE v \in {f[x] : x \in DOMAIN f} :
                 \A x \in DOMAIN f : f[x] <= v

Init ==
  /\ data \in Datasets
  /\ pc = "start"
  /\ row = 0
  /\ key_idx = 0
  /\ descriptor_frequency = <<>>
  /\ max_frequency = 0
  /\ added_nodes = {}
  /\ core_cde_measure = s_empty
  /\ entries_dict = <<>>
  /\ net_nodes = <<>>
  /\ net_edges = <<>>
  /\ written = FALSE
  /\ entries = s_empty
  /\ item_nodes = <<>>
  /\ split_values = <<>>

\* net.add_node(core_cde_measure, label=core_cde_measure, color=..., size=...,
\*              shape=...) of lines 111-112
MeasureNode(m, freq, maxfreq) ==
  [id |-> m, label |-> m, color |-> color_map[MeasureColumn],
   size |-> MeasureSize(freq[m], maxfreq), shape |-> shape_map[MeasureColumn]]

\* net.add_node(item, label=item, color=..., size=15, shape=...) of lines 187-188
EntryNode(item, entry_type) ==
  [id |-> item, label |-> item, color |-> color_map[entry_type],
   size |-> EntrySize, shape |-> shape_map[entry_type]]

\* a variant of MeasureIsNew: the measure is declared without looking it up
MeasureIsNewAlways(m, added) == TRUE

\* the test of line 110
MeasureIsNew(m, added) == m \notin added

\* a variant of ItemIsNew: the item is declared without looking it up
ItemIsNewUnchecked(item, added) == item # <<>>

\* the test of line 186
ItemIsNew(item, added) == item # <<>> /\ item \notin added

\* a variant of ItemIsKnown: an item already declared is left out of the list
ItemIsKnownNever(item) == FALSE

\* the test of line 191
ItemIsKnown(item) == item # <<>>

\* a variant of EntriesPresent: a missing field is split like any other
EntriesPresentAlways(e) == TRUE

\* the test of line 182
EntriesPresent(e) == e \notin Missing

\* the loop of lines 184-192 over the items left; acc holds item_nodes, the
\* set added_nodes and the add_node calls issued so far
RECURSIVE ProcessItems(_, _, _)
ProcessItems(items, entry_type, acc) ==
  IF items = <<>> THEN acc
  ELSE LET item == Strip(Head(items))
           next ==
             IF ItemIsNew(item, acc.added_nodes)
             THEN [item_nodes  |-> Append(acc.item_nodes, item),
                   added_nodes |-> acc.added_nodes \cup {item},
                   calls       |-> Append(acc.calls, EntryNode(item, entry_type))]
             ELSE IF ItemIsKnown(item)
             THEN [acc EXCEPT !.item_nodes = Append(@, item)]
             ELSE acc
       IN  ProcessItems(Tail(items), entry_type, next)

\* process_entries(entries, entry_type, added_nodes): the list returned, the
\* set added_nodes as the call leaves it, and the add_node calls it issued
process_entries(e, entry_type, added) ==
  LET acc == [item_nodes |-> <<>>, added_nodes |-> added, calls |-> <<>>]
  IN  IF EntriesPresent(e) THEN ProcessItems(Split(e), entry_type, acc) ELSE acc

\* a variant of OtherKey: the lists of the same key are linked too
OtherKeyAny(other_key, key) == TRUE

\* the test of line 127
OtherKey(other_key, key) == other_key # key

\* lines 126-129 for one node of entries_dict[key]
OtherEdges(node, key, ed) ==
  Flatten([j \in 1..Len(ed) |->
             IF OtherKey(ed[j].key, key)
             THEN [n \in 1..Len(ed[j].nodes) |-> <<node, ed[j].nodes[n]>>]
             ELSE <<>>])

\* lines 122-129: the add_edge calls of one row, in the order issued
RowEdges(measure, ed) ==
  Flatten([j \in 1..Len(ed) |->
             Flatten([n \in 1..Len(ed[j].nodes) |->
                        <<<<measure, ed[j].nodes[n]>>>>
                          \o OtherEdges(ed[j].nodes[n], ed[j].key, ed)])])

\* a variant of AddEdges: a pair already declared is skipped
RECURSIVE AddEdgesOnce(_, _)
AddEdgesOnce(edges, calls) ==
  IF calls = <<>> THEN edges
  ELSE IF \E n \in DOMAIN edges : edges[n] = Head(calls)
  THEN AddEdgesOnce(edges, Tail(calls))
  ELSE AddEdgesOnce(Append(edges, Head(calls)), Tail(calls))

\* net.add_edge called once per element of calls
AddEdges(edges, calls) == edges \o calls

\* the assertions of pyvis's add_edge: both endpoints are nodes of net
EdgeAccepted(call, ids) == call[1] \in ids /\ call[2] \in ids

\* the add_edge calls reached: those before the first one to raise
\* AssertionError, and that one
RECURSIVE IssuedCalls(_, _)
IssuedCalls(calls, ids) ==
  IF calls = <<>> THEN <<>>
  ELSE IF EdgeAccepted(Head(calls), ids)
  THEN <<Head(calls)>> \o IssuedCalls(Tail(calls), ids)
  ELSE <<Head(calls)>>

\* a variant of ComputeFrequencies: max(..., default=0) raises nothing
ComputeFrequenciesDefault ==
  /\ pc = "start"
  /\ descriptor_frequency' = Counter(all_descriptors(data))
  /\ max_frequency' = IF all_descriptors(data) = <<>> THEN 0
                      ELSE MaxValue(descriptor_frequency')
  /\ IF data = <<>>
     THEN row' = row /\ pc' = "write"
     ELSE row' = 1 /\ pc' = "measure"
  /\ added_nodes' = {}
  /\ UNCHANGED <<data, key_idx, core_cde_measure, entries_dict, net_nodes,
                 net_edges, written, entries, item_nodes, split_values>>

\* lines 100-105; max() of an empty sequence raises ValueError
ComputeFrequencies ==
  /\ pc = "start"
  /\ \/ /\ all_descriptors(data) = <<>>
        /\ pc' = "value_error"
        /\ UNCHANGED <<row, descriptor_frequency, max_frequency>>
     \/ /\ all_descriptors(data) # <<>>
        /\ descriptor_frequency' = Counter(all_descriptors(data))
        /\ max_frequency' = MaxValue(descriptor_frequency')
        /\ row' = 1
        /\ pc' = "measure"
  /\ added_nodes' = {}
  /\ UNCHANGED <<data, key_idx, core_cde_measure, entries_dict, net_nodes,
                 net_edges, written, entries, item_nodes, split_values>>

\* lines 108-116 for the entry data[row]
DeclareMeasure ==
  /\ pc = "measure"
  /\ LET m == data[row][MeasureColumn]
     IN  /\ core_cde_measure' = m
         /\ IF m \notin Missing /\ MeasureIsNew(m, added_nodes)
            THEN /\ net_nodes' = Append(net_nodes,
                       MeasureNode(m, descriptor_frequency, max_frequency))
                 /\ added_nodes' = added_nodes \cup {m}
            ELSE UNCHANGED <<net_nodes, added_nodes>>
  /\ entries_dict' = <<>>
  /\ key_idx' = 1
  /\ pc' = "entries"
  /\ UNCHANGED <<data, row, descriptor_frequency, max_frequency, net_edges,
                 written, entries, item_nodes, split_values>>

\* lines 117-119 for the key Keys[key_idx]
ProcessCategory ==
  /\ pc = "entries"
  /\ LET key == Keys[key_idx]
         r   == process_entries(data[row][key], key, added_nodes)
     IN  /\ entries_dict' = Append(entries_dict,
                                   [key |-> key, nodes |-> r.item_nodes])
         /\ added_nodes' = r.added_nodes
         /\ net_nodes' = net_nodes \o r.calls
  /\ IF key_idx < Len(Keys)
     THEN key_idx' = key_idx + 1 /\ pc' = "entries"
     ELSE key_idx' = key_idx /\ pc' = "edges"
  /\ UNCHANGED <<data, row, descriptor_frequency, max_frequency,
                 core_cde_measure, net_edges, written, entries, item_nodes,
                 split_values>>

\* lines 122-129 for the entry data[row], then the next entry of line 107; an
\* add_edge call with an endpoint that is no node of net raises
\* AssertionError, which ends create_knowledge_graph
ConnectRow ==
  /\ pc = "edges"
  /\ LET ids    == {net_nodes[n].id : n \in DOMAIN net_nodes}
         calls  == RowEdges(core_cde_measure, entries_dict)
         issued == IssuedCalls(calls, ids)
     IN  /\ net_edges' = AddEdges(net_edges, issued)
         /\ IF \E n \in DOMAIN issued : ~EdgeAccepted(issued[n], ids)
            THEN row' = row /\ pc' = "assertion_error"
            ELSE IF row < Len(data)
            THEN row' = row + 1 /\ pc' = "measure"
            ELSE row' = row /\ pc' = "write"
  /\ UNCHANGED <<data, key_idx, descriptor_frequency, max_frequency,
                 added_nodes, core_cde_measure, entries_dict, net_nodes,
                 written, entries, item_nodes, split_values>>

\* lines 132-178: set_options, generate_html, write knowledge_graph.html
WriteGraph ==
  /\ pc = "write"
  /\ written' = TRUE
  /\ pc' = "done"
  /\ UNCHANGED <<data, row, key_idx, descriptor_frequency, max_frequency,
                 added_nodes, core_cde_measure, entries_dict, net_nodes,
                 net_edges, entries, item_nodes, split_values>>

Next ==
  \/ ComputeFrequencies
  \/ DeclareMeasure
  \/ ProcessCategory
  \/ ConnectRow
  \/ WriteGraph

Spec == Init /\ [][Next]_vars

(* ------------------- process_entries on one field ---------------------- *)

InitSplit ==
  /\ data = <<>>
  /\ pc = "call"
  /\ row = 0
  /\ key_idx = 0
  /\ descriptor_frequency = <<>>
  /\ max_frequency = 0
  /\ added_nodes = {}
  /\ core_cde_measure = s_empty
  /\ entries_dict = <<>>
  /\ net_nodes = <<>>
  /\ net_edges = <<>>
  /\ written = FALSE
  /\ entries \in Fields
  /\ item_nodes = <<>>
  /\ split_values = <<>>

\* process_entries(entries, 'Domain', added_nodes) of line 119
CallProcessEntries ==
  /\ pc = "call"
  /\ LET r == process_entries(entries, "Domain", added_nodes)
     IN  /\ item_nodes' = r.item_nodes
         /\ added_nodes' = r.added_nodes
         /\ net_nodes' = net_nodes \o r.calls
  /\ pc' = "table"
  /\ UNCHANGED <<data, row, key_idx, descriptor_frequency, max_frequency,
                 core_cde_measure, entries_dict, net_edges, written, entries,
                 split_values>>

\* [item.strip() for item in value.split(',')] of line 275
StripAll(items) == [n \in 1..Len(items) |-> Strip(items[n])]

\* lines 268-275 for one value of the Domain column; dropna() of line 268
\* leaves no missing value
SplitDomainValue ==
  /\ pc = "table"
  /\ entries \notin Missing
  /\ split_values' = StripAll(Split(entries))
  /\ pc' = "split_done"
  /\ UNCHANGED <<data, row, key_idx, descriptor_frequency, max_frequency,
                 added_nodes, core_cde_measure, entries_dict, net_nodes,
                 net_edges, written, entries, item_nodes>>

NextSplit ==
  \/ CallProcessEntries
  \/ SplitDomainValue

SpecSplit == InitSplit /\ [][NextSplit]_vars

(* ------------------------- notions of the claims ----------------------- *)

Range(seq) == {seq[n] : n \in DOMAIN seq}

NodeIds == {net_nodes[n].id : n \in DOMAIN net_nodes}

\* the non-empty trimmed tokens of a non-missing field
Tokens(field) ==
  IF field \in Missing THEN {}
  ELSE {Strip(seg) : seg \in Range(Split(field))} \ {s_empty}

\* label x occurs in row r at position c: 0 is the Core CDE Measure, c >= 1
\* the category Keys[c]
Occurs(x, r, c) ==
  IF c = 0
  THEN data[r][MeasureColumn] = x /\ x \notin Missing
  ELSE x \in Tokens(data[r][Keys[c]])

Positions == (1..Len(data)) \X (0..Len(Keys))

Occurrences(x) == {p \in Positions : Occurs(x, p[1], p[2])}

\* the first position at or after (r, c), in processing order, where x occurs;
\* <<0, 0>> if there is none
RECURSIVE FirstFrom(_, _, _)
FirstFrom(x, r, c) ==
  IF r > Len(data) THEN <<0, 0>>
  ELSE IF Occurs(x, r, c) THEN <<r, c>>
  ELSE IF c < Len(Keys) THEN FirstFrom(x, r, c + 1)
  ELSE FirstFrom(x, r + 1, 0)

\* the first occurrence of x in processing order
FirstOccurrence(x) == FirstFrom(x, 1, 0)

\* the rows whose edge declarations have all been issued
Completed == {r \in 1..Len(data) : r < row \/ pc \in {"write", "done"}}

\* every cell of every row is 'nan' or ''
AllMissing ==
  \A r \in 1..Len(data) : \A c \in 1..Len(Columns) :
     data[r][Columns[c]] \in Missing

(* ------------------------------- claims -------------------------------- *)

\* C1: at every point of the build, no label has been declared as a node
\* twice, and the labels declared are exactly those in added_nodes.
C1_NodeDeclaredOnce ==
  /\ \A i, j \in DOMAIN net_nodes :
       net_nodes[i].id = net_nodes[j].id => i = j
  /\ NodeIds = added_nodes

\* a finished build in which a declared label occurs at three places or more,
\* in two rows and under two categories
C1_Witness ==
  /\ pc = "done"
  /\ \E x \in NodeIds :
       \E p, q \in Occurrences(x) : p[1] # q[1] /\ p[2] # q[2]

\* C2: every edge declaration issued has both endpoints declared as nodes (so
\* none has the missing marker of a row without measure as endpoint), the
\* build is not ended by a row, and a completed row without measure has a
\* node for each token of its fields.
C2_MissingMeasureSkipped ==
  /\ \A n \in DOMAIN net_edges :
       net_edges[n][1] \in NodeIds /\ net_edges[n][2] \in NodeIds
  /\ pc # "assertion_error"
  /\ \A r \in Completed :
       data[r][MeasureColumn] \in Missing =>
         \A k \in DOMAIN Keys : Tokens(data[r][Keys[k]]) \subseteq NodeIds

\* C6 as claimed: no node labelled 'nan' or '' is ever declared.
C6_NoMissingLabel == NodeIds \cap Missing = {}

\* C6: no node labelled '' is ever declared, and a node labelled 'nan' is
\* declared only for a token 'nan' of a category field that is not itself
\* 'nan' or ''.
C6_NoMissingField ==
  /\ s_empty \notin NodeIds
  /\ s_nan \in NodeIds =>
       \E r \in 1..Len(data) : \E k \in DOMAIN Keys :
          /\ data[r][Keys[k]] \notin Missing
          /\ s_nan \in Range(StripAll(Split(data[r][Keys[k]])))

\* a finished build with nodes, whose rows hold a missing measure, a missing
\* category field and a field with an empty token and a token 'nan'
C6_Witness ==
  /\ pc = "done"
  /\ net_nodes # <<>>
  /\ \E r \in 1..Len(data) : data[r][MeasureColumn] \in Missing
  /\ \E r \in 1..Len(data) : \E k \in DOMAIN Keys :
       data[r][Keys[k]] \in Missing
  /\ \E r \in 1..Len(data) : \E k \in DOMAIN Keys :
       /\ data[r][Keys[k]] \notin Missing
       /\ {s_empty, s_nan} \subseteq Range(StripAll(Split(data[r][Keys[k]])))

\* C7: a dataset whose cells are all missing (or with no rows) ends in the
\* ValueError raised by max(), with no node, no edge and no artifact; a build
\* that goes on has a maximum frequency of at least 1.
C7_AllMissingFailsFast ==
  /\ AllMissing =>
       /\ pc \in {"start", "value_error"}
       /\ net_nodes = <<>> /\ net_edges = <<>> /\ ~written
  /\ pc = "value_error" => AllMissing
  /\ pc \notin {"start", "value_error"} => max_frequency >= 1

\* the error outcome, for a dataset of at least one row
C7_Witness == pc = "value_error" /\ Len(data) >= 1 /\ AllMissing

\* the number of cells, over all rows and columns, whose whole value is x
CellCount(x) ==
  Cardinality({p \in (1..Len(data)) \X (1..Len(Columns)) :
                 data[p[1]][Columns[p[2]]] = x})

\* the largest CellCount of a non-missing value
MaxCellCount ==
  LET counts == {CellCount(data[p[1]][Columns[p[2]]]) :
                   p \in {q \in (1..Len(data)) \X (1..Len(Columns)) :
                            data[q[1]][Columns[q[2]]] \notin Missing}}
  IN  CHOOSE v \in counts : \A w \in counts : w <= v

\* the Core CDE Measure values of the rows
MeasureLabels ==
  {data[r][MeasureColumn] : r \in 1..Len(data)} \ Missing

\* the tokens of the five other categories of the rows
EntryLabels ==
  UNION {Tokens(data[r][Keys[k]]) : r \in 1..Len(data), k \in DOMAIN Keys}

\* mant * maxfreq - 30 * freq * 2^(-exp) of a double size of exponent
\* -52..-39, as [hi, lo] with value hi * 2^26 + lo and 0 <= lo < 2^26
Deviation(size, freq, maxfreq) ==
  LET b4 == maxfreq * size.mant[5]
      b3 == maxfreq * size.mant[4] + b4 \div Limb
      b2 == maxfreq * size.mant[3] + b3 \div Limb
      a  == maxfreq * (size.mant[1] * Limb + size.mant[2])
              - 30 * freq * Pow2(13 - (size.exp + 52))
  IN  [hi |-> a * Limb + b2, lo |-> (b3 % Limb) * Limb + (b4 % Limb)]

\* size = 30 * CellCount(x) / maxfreq, as real numbers
Proportional(size, x, maxfreq) ==
  LET d == Deviation(size, CellCount(x), maxfreq)
  IN  size.exp \in (0 - 52)..(0 - 39) /\ d.hi = 0 /\ d.lo = 0

\* size is within two units in the last place of 30 * CellCount(x) / maxfreq
NearlyProportional(size, x, maxfreq) ==
  LET d == Deviation(size, CellCount(x), maxfreq)
  IN  /\ size.exp \in (0 - 52)..(0 - 39)
      /\ \/ d.hi = 0 /\ d.lo <= 2 * maxfreq
         \/ d.hi = 0 - 1 /\ Limb * Limb - d.lo <= 2 * maxfreq

\* size is the double the expression 30 * (freq / maxfreq) evaluates to,
\* freq being CellCount(x)
ScaledSize(size, x, maxfreq) ==
  /\ size = FloatMul(30, FloatDiv(CellCount(x), maxfreq))
  /\ NearlyProportional(size, x, maxfreq)

\* the double 15.0
Fifteen == [mant |-> <<1, 7 * 2^10, 0, 0, 0>>, exp |-> 0 - 49]

\* C3 as claimed: after the build, the node of every Core CDE Measure value
\* has size 30 * freq / maxfreq.
C3_MeasureSizeProportional ==
  pc = "done" =>
    \A n \in DOMAIN net_nodes :
       net_nodes[n].id \in MeasureLabels =>
         Proportional(net_nodes[n].size, net_nodes[n].id, MaxCellCount)

\* C3: after the build, the node of every label whose first occurrence in
\* processing order is as a Core CDE Measure has as size the double
\* 30 * (freq / maxfreq), within two units in the last place of
\* 30 * freq / maxfreq, freq counting the cells of all columns.
C3_FirstMeasureSizeProportional ==
  pc = "done" =>
    \A x \in MeasureLabels :
       FirstOccurrence(x)[2] = 0 =>
         \E n \in DOMAIN net_nodes :
            net_nodes[n].id = x
              /\ ScaledSize(net_nodes[n].size, x, MaxCellCount)

\* a finished build with a measure declared first as a measure, that is also a
\* token of another category and a cell of another column, is less frequent
\* than the most frequent value, and whose size is a rounded quotient
C3_Witness ==
  /\ pc = "done"
  /\ \E x \in MeasureLabels \cap EntryLabels :
       /\ FirstOccurrence(x)[2] = 0
       /\ \E r \in 1..Len(data) : \E k \in DOMAIN Keys : data[r][Keys[k]] = x
       /\ CellCount(x) < MaxCellCount
       /\ (30 * CellCount(x)) % MaxCellCount # 0

\* C4 as claimed: after the build, the node of every token of the five other
\* categories has size 15.
C4_EntrySizeFixed ==
  pc = "done" =>
    \A n \in DOMAIN net_nodes :
       net_nodes[n].id \in EntryLabels =>
         net_nodes[n].size = Fifteen

\* C4: after the build, the node of every label whose first occurrence in
\* processing order is as a token of one of the five other categories has
\* size 15.
C4_FirstEntrySizeFixed ==
  pc = "done" =>
    \A x \in EntryLabels :
       FirstOccurrence(x)[2] # 0 =>
         \E n \in DOMAIN net_nodes :
            net_nodes[n].id = x /\ net_nodes[n].size = Fifteen

\* a finished build with a label declared first as a token, that is a measure
\* of a later row and the value of several cells
C4_Witness ==
  /\ pc = "done"
  /\ \E x \in EntryLabels \cap MeasureLabels :
       FirstOccurrence(x)[2] # 0 /\ CellCount(x) >= 2

\* the labels of the entry list of the j-th category of the current row
ListLabels(j) == Range(entries_dict[j].nodes)

\* the add_edge calls a step issues
IssuedEdges == Range(SubSeq(net_edges', Len(net_edges) + 1, Len(net_edges')))

MeasureLinks ==
  {<<core_cde_measure, x>> :
     x \in UNION {ListLabels(j) : j \in DOMAIN entries_dict}}

CrossLinks ==
  UNION {ListLabels(p[1]) \X ListLabels(p[2]) :
           p \in {q \in (DOMAIN entries_dict) \X (DOMAIN entries_dict) :
                    q[1] # q[2]}}

\* C5 as claimed: the edges issued for a row with measure M connect M to
\* every label of every entry list and every label to every label of each
\* other list, and none connects two distinct labels of one entry list.
C5_NoSameCategoryEdge ==
  [][ (pc = "edges" /\ core_cde_measure \notin Missing) =>
        /\ MeasureLinks \cup CrossLinks \subseteq IssuedEdges
        /\ \A j \in DOMAIN entries_dict : \A x, y \in ListLabels(j) :
             x # y => <<x, y>> \notin IssuedEdges ]_vars

\* C5: the edges issued for a row with measure M are exactly the pairs (M, x)
\* for x in an entry list and (x, y) for x and y in the entry lists of two
\* different categories; two distinct labels of one entry list get an edge
\* only if one of them is also M or also in the list of another category.
C5_CrossCategoryEdges ==
  [][ (pc = "edges" /\ core_cde_measure \notin Missing) =>
        /\ IssuedEdges = MeasureLinks \cup CrossLinks
        /\ \A j \in DOMAIN entries_dict : \A x, y \in ListLabels(j) :
             ( /\ x # y
               /\ core_cde_measure \notin {x, y}
               /\ \A k \in DOMAIN entries_dict \ {j} :
                    x \notin ListLabels(k) /\ y \notin ListLabels(k) )
             => <<x, y>> \notin IssuedEdges /\ <<y, x>> \notin IssuedEdges
    ]_vars

\* the edges of a row M, 'c, d', 'a' have just been issued: M-c, M-d, M-a, c-a,
\* d-a and no c-d
C5_Witness ==
  /\ pc \in {"measure", "write"}
  /\ core_cde_measure \notin Missing
  /\ Len(entries_dict) = Len(Keys)
  /\ \E x, y \in ListLabels(1) : \E z \in ListLabels(2) :
       /\ x # y /\ z \notin {x, y} /\ core_cde_measure \notin {x, y, z}
       /\ {<<core_cde_measure, x>>, <<core_cde_measure, y>>,
           <<core_cde_measure, z>>, <<x, z>>, <<y, z>>} \subseteq Range(net_edges)
       /\ <<x, y>> \notin Range(net_edges)

\* the pairs the row r connects
RowPairs(r) ==
  LET lists == [k \in DOMAIN Keys |-> Tokens(data[r][Keys[k]])]
  IN  {<<data[r][MeasureColumn], x>> : x \in UNION {lists[k] : k \in DOMAIN Keys}}
        \cup UNION {lists[p[1]] \X lists[p[2]] :
                      p \in {q \in (DOMAIN Keys) \X (DOMAIN Keys) : q[1] # q[2]}}

Declarations(pair) ==
  Cardinality({n \in DOMAIN net_edges : net_edges[n] = pair})

MeasureRows ==
  {r \in Completed : data[r][MeasureColumn] \notin Missing}

\* C8: after the processing of any number of rows, a pair of labels has at
\* least as many edge declarations as there are completed rows with a measure
\* that connect it, and the measure of such a row has been declared as a node
\* exactly once.
C8_EdgesAccumulate ==
  pc \in {"measure", "write", "done"} =>
  /\ \A pair \in UNION {RowPairs(r) : r \in MeasureRows} :
       Declarations(pair) >=
         Cardinality({r \in MeasureRows : pair \in RowPairs(r)})
  /\ \A r \in MeasureRows :
       Cardinality({n \in DOMAIN net_nodes :
                      net_nodes[n].id = data[r][MeasureColumn]}) = 1

\* a finished build of two rows with the same measure and different Domains:
\* the measure is connected to the Domains of both rows, and a pair of both
\* rows was declared twice or more
C8_Witness ==
  /\ pc = "done"
  /\ \E r1, r2 \in MeasureRows :
       /\ r1 # r2
       /\ data[r1][MeasureColumn] = data[r2][MeasureColumn]
       /\ Tokens(data[r1]["Domain"]) # {}
       /\ Tokens(data[r2]["Domain"]) # {}
       /\ Tokens(data[r1]["Domain"]) # Tokens(data[r2]["Domain"])
       /\ \A x \in Tokens(data[r1]["Domain"]) \cup Tokens(data[r2]["Domain"]) :
            <<data[r1][MeasureColumn], x>> \in Range(net_edges)
       /\ \E pair \in RowPairs(r1) \cap RowPairs(r2) : Declarations(pair) >= 2

\* ', '.join(items)
RECURSIVE Join(_)
Join(items) ==
  IF items = <<>> THEN <<>>
  ELSE IF Len(items) = 1 THEN items[1]
  ELSE items[1] \o <<Comma, 32>> \o Join(Tail(items))

\* s without its whitespace
Squeeze(s) == SelectSeq(s, LAMBDA ch : ch \notin Whitespace)

\* C9 as claimed: the tokens of a non-missing field, rejoined with ', ', give
\* the field with each comma-separated segment trimmed, one token per segment.
C9_RoundTrip ==
  pc = "split_done" =>
    /\ Join(item_nodes) = Join(split_values)
    /\ Len(item_nodes) = Len(Split(entries))

\* C9: for a non-missing field none of whose comma-separated segments is
\* empty once trimmed, the tokens rejoined with ', ' give the field with each
\* segment trimmed, one token per segment in the original order.
C9_RoundTripNoEmptySegment ==
  (pc = "split_done" /\ s_empty \notin Range(split_values)) =>
    /\ Join(item_nodes) = Join(split_values)
    /\ Squeeze(Join(item_nodes)) = Squeeze(entries)
    /\ Len(item_nodes) = Len(Split(entries))
    /\ \A n \in DOMAIN item_nodes : item_nodes[n] = Strip(Split(entries)[n])

\* a field of several segments, one repeated and one with a no-break space
\* beside it, has been split
C9_Witness ==
  /\ pc = "split_done"
  /\ s_empty \notin Range(split_values)
  /\ Len(item_nodes) >= 2
  /\ item_nodes[1] = item_nodes[2]
  /\ Join(item_nodes) # entries
  /\ \E n \in DOMAIN entries : entries[n] \in Whitespace \ {32}

\* the category of position c
Category(c) == IF c = 0 THEN MeasureColumn ELSE Keys[c]

\* C10: at every point, every node declared carries the color, shape and
\* size of the category of the first occurrence of its label in processing
\* order, and no label has two nodes.
C10_FirstCategoryStyle ==
  /\ net_nodes # <<>> =>
       LET maxfreq == MaxCellCount
       IN  \A n \in DOMAIN net_nodes :
              LET x == net_nodes[n].id
                  p == FirstOccurrence(x)
              IN  /\ p[1] >= 1
                  /\ net_nodes[n].color = color_map[Category(p[2])]
                  /\ net_nodes[n].shape = shape_map[Category(p[2])]
                  /\ IF p[2] = 0
                     THEN ScaledSize(net_nodes[n].size, x, maxfreq)
                     ELSE net_nodes[n].size = Fifteen
  /\ Cardinality(NodeIds) = Len(net_nodes)

\* a finished build with a declared label that occurs under two categories
\* whose styles differ
C10_Witness ==
  /\ pc = "done"
  /\ \E x \in NodeIds : \E p, q \in Occurrences(x) :
       /\ color_map[Category(p[2])] # color_map[Category(q[2])]
       /\ p[1] # q[1]

====
